---- MODULE Spec2Model ----
(***************************************************************************)
(* ChessLink: the in-memory GameManager (player -> game binding, game      *)
(* registry, draw / resign / move state machine), the socket handlers      *)
(* built on it (reconnection grace timers, erasure of concluded games)     *)
(* and the CleaningService that sweeps stale games.                        *)
(*                                                                         *)
(* Time: one unit is the reconnection grace delay.  Every timestamp and    *)
(* every timer's due time is kept relative to the present instant, so      *)
(* Date.now() reads Now and a tick of the clock moves each stored time one *)
(* unit into the past; a timestamp older than every comparison the program *)
(* makes can tell apart stays at Oldest.  createdAt is written once and    *)
(* never read, and usernames only label what is sent: both are left out.   *)
(*                                                                         *)
(* The rules engine (chess.js) is outside the repository: a board state is *)
(* the side to move and the number of half moves played, and a move intent *)
(* names what the engine answers for it (rejected, accepted, accepted with *)
(* a terminal condition).                                                  *)
(***************************************************************************)
EXTENDS Integers, Sequences, FiniteSets, TLC

\* ---- bounds of the model ----
MaxGames == 2          \* Game objects alive at once
MaxOpen == 1           \* of them, while the socket handlers run
MaxCalls == 6          \* length of a run of direct GameManager calls
MaxSockets == 1        \* simultaneous live sockets of one user
MaxPly == 2            \* half moves played in one game
MaxTimers == 2         \* grace timers pending at once
CleanupInterval == 1   \* cleanupIntervalMs handed to the GameManager
StaleThreshold == 1    \* staleThresholdMs handed to the GameManager

\* ---- program constants ----
GraceDelay == 1        \* the 5000 ms of the disconnect timer, the unit of time

Players == {"p1", "p2"}
Colors == {"white", "black"}
ColorInputs == {"white", "black", "red"}   \* what a client may send as Color
GameIds == 1..MaxGames
Moves == {"quiet", "illegal", "badPromotion", "checkmate", "stalemate"}

NoId == "none"
NoPlayer == [id |-> NoId, connected |-> FALSE]
NoColor == "none"
NoOutcome == [winner |-> NoColor, reason |-> "none"]
NoGame == [id |-> 0]
Undefined == 0
Fault == -1
NoTimer == -1

\* Date.now(), and the oldest timestamp kept apart
Now == 0
Oldest == 0 - (StaleThreshold + 1)

VARIABLES
  games,        \* the Game objects: game id -> Game, NoGame when there is none
  gameMap,      \* GameManager.gameMap: the ids in the registry
  playerMap,    \* GameManager.playerMap: player -> id of the bound Game, or 0
  cleanupTimer, \* CleaningService.cleanupTimer: due time of the next sweep, or NoTimer
  stopped,      \* stopCleanup has been called and has returned
  timers,       \* pending grace timers, oldest first: [user, mapped, due]
  timerMap,     \* chessSockets timerMap: user -> "none" | "pending" | "fired"
  socketMap,    \* chessSockets socketMap: the users with an entry
  live,         \* user -> number of live sockets with handlers registered
  crashed,      \* an exception left a listener or a timer callback uncaught
  calls,        \* how many steps a run of direct GameManager calls has taken
  last          \* the handler or method that ran last, and what it returned

vars == <<games, gameMap, playerMap, cleanupTimer, stopped, timers,
          timerMap, socketMap, live, crashed, calls, last>>

\* ---- rules engine (chess.js), at its boundary ----
StartFen == [turn |-> "w", ply |-> 0]

\* Chess.turn(), mapped to a Color as makeMove does
Turn(fen) == IF fen.turn = "w" THEN "white" ELSE "black"

\* Chess.move(): TRUE iff the engine accepts the move; it answers null or throws
\* for a move that is not legal, a promotion to no piece included, and makeMove
\* fails on either answer before it has written anything
Legal(fen, move) == move \notin {"illegal", "badPromotion"}

\* Chess.fen() after an accepted move
FenAfter(fen, move) ==
  [turn |-> IF fen.turn = "w" THEN "b" ELSE "w", ply |-> fen.ply + 1]

\* ---- GameManager ----
Store == [games |-> games, gameMap |-> gameMap, playerMap |-> playerMap]

\* generateUniqueId(): an id no Game object alive has
FreeIds(st) == {g \in GameIds : st.games[g] = NoGame}
generateUniqueId(st) == CHOOSE g \in FreeIds(st) : \A h \in FreeIds(st) : g <= h

Opposite(color) == IF color = "white" THEN "black" ELSE "white"

Occupied(game, color) == game.players[color] # NoPlayer

getPlayerColor(game, playerId) ==
  IF game.players["white"].id = playerId THEN "white"
  ELSE IF game.players["black"].id = playerId THEN "black"
  ELSE NoColor

\* the Game object playerMap.get(playerId) returns, NoGame for undefined
BoundGame(st, playerId) ==
  IF st.playerMap[playerId] = 0 THEN NoGame ELSE st.games[st.playerMap[playerId]]

\* A Game object no map refers to any longer is unreachable: drop it.
Collect(st) ==
  [st EXCEPT !.games =
     [g \in GameIds |->
        IF g \in st.gameMap \/ (\E p \in Players : st.playerMap[p] = g)
        THEN st.games[g] ELSE NoGame]]

\* variant of eraseGame that leaves the bindings of the seated players in place
eraseGame_KeepsBindings(st, game) ==
  IF game = NoGame THEN st
  ELSE Collect([st EXCEPT !.gameMap = st.gameMap \ {game.id}])

\* variant of eraseGame that clears the bindings and leaves the match in the map
eraseGame_KeepsMatch(st, game) ==
  IF game = NoGame THEN st
  ELSE Collect([st EXCEPT
         !.playerMap = [p \in Players |->
            IF \E c \in Colors : game.players[c].id = p THEN 0 ELSE st.playerMap[p]]])

eraseGame(st, game) ==
  IF game = NoGame THEN st
  ELSE Collect([st EXCEPT
         !.playerMap = [p \in Players |->
            IF \E c \in Colors : game.players[c].id = p THEN 0 ELSE st.playerMap[p]],
         !.gameMap = st.gameMap \ {game.id}])

SetConnected(game, color, flag, t) ==
  [game EXCEPT !.players[color].connected = flag, !.updatedAt = t]

connect(st, playerId, t) ==
  LET game == BoundGame(st, playerId)
      color == getPlayerColor(game, playerId)
  IN IF game = NoGame THEN [st |-> st, ret |-> Undefined]
     ELSE IF color = NoColor THEN [st |-> st, ret |-> Fault]
     ELSE [st |-> [st EXCEPT !.games[game.id] = SetConnected(game, color, TRUE, t)],
           ret |-> game.id]

disconnect(st, playerId, t) ==
  LET game == BoundGame(st, playerId)
      color == getPlayerColor(game, playerId)
  IN IF game = NoGame THEN [st |-> st, ret |-> Undefined]
     ELSE IF color = NoColor THEN [st |-> st, ret |-> Fault]
     ELSE [st |-> [st EXCEPT !.games[game.id] = SetConnected(game, color, FALSE, t)],
           ret |-> game.id]

\* the object literal of createGame; a key that is no Color fills no side
NewGame(id, playerId, color, t) ==
  [id |-> id,
   players |-> [c \in Colors |->
                  IF c = color THEN [id |-> playerId, connected |-> TRUE]
                  ELSE NoPlayer],
   updatedAt |-> t, fen |-> StartFen, moves |-> <<>>,
   joinable |-> TRUE, outcome |-> NoOutcome, drawOfferedBy |-> NoColor]

\* variant of createGame without the test of the caller's binding: a bound
\* caller gets a new Game and is rebound to it
createGame_Rebinds(st, playerId, color, t) ==
  IF FreeIds(st) = {} THEN [st |-> st, ret |-> Undefined]
  ELSE LET id == generateUniqueId(st)
       IN [st |-> [st EXCEPT
                     !.games[id] = NewGame(id, playerId, color, t),
                     !.gameMap = st.gameMap \cup {id},
                     !.playerMap[playerId] = id],
           ret |-> id]

\* variant of createGame whose refusal of a bound caller also unbinds the caller
createGame_RefusalUnbinds(st, playerId, color, t) ==
  IF BoundGame(st, playerId) # NoGame
  THEN [st |-> [st EXCEPT !.playerMap[playerId] = 0], ret |-> Undefined]
  ELSE LET id == generateUniqueId(st)
       IN [st |-> [st EXCEPT
                     !.games[id] = NewGame(id, playerId, color, t),
                     !.gameMap = st.gameMap \cup {id},
                     !.playerMap[playerId] = id],
           ret |-> id]

createGame(st, playerId, color, t) ==
  IF BoundGame(st, playerId) # NoGame THEN [st |-> st, ret |-> Undefined]
  ELSE LET id == generateUniqueId(st)
       IN [st |-> [st EXCEPT
                     !.games[id] = NewGame(id, playerId, color, t),
                     !.gameMap = st.gameMap \cup {id},
                     !.playerMap[playerId] = id],
           ret |-> id]

\* variant of joinGame without the test for a full game: the caller takes the
\* black side of a game whose white side is occupied
joinGame_IntoFull(st, playerId, gameId, t) ==
  IF gameId \notin st.gameMap THEN [st |-> st, ret |-> Undefined]
  ELSE LET game == st.games[gameId]
           color == IF Occupied(game, "white") THEN "black" ELSE "white"
       IN [st |-> Collect([st EXCEPT
                  !.games[gameId] = [game EXCEPT
                     !.players[color] = [id |-> playerId, connected |-> TRUE],
                     !.joinable = FALSE,
                     !.updatedAt = t],
                  !.playerMap[playerId] = gameId]),
           ret |-> gameId]

joinGame(st, playerId, gameId, t) ==
  IF gameId \notin st.gameMap THEN [st |-> st, ret |-> Undefined]
  ELSE LET game == st.games[gameId]
           color == IF Occupied(game, "white") THEN "black" ELSE "white"
       IN IF Occupied(game, "white") /\ Occupied(game, "black")
          THEN [st |-> st, ret |-> Undefined]
          ELSE [st |-> Collect([st EXCEPT
                  !.games[gameId] = [game EXCEPT
                     !.players[color] = [id |-> playerId, connected |-> TRUE],
                     !.joinable = FALSE,
                     !.updatedAt = t],
                  !.playerMap[playerId] = gameId]),
                ret |-> gameId]

getAllGames(st) == {st.games[g] : g \in st.gameMap}

\* variant of offerDraw without the test for a pending offer
offerDraw_Overwrites(st, playerId, t) ==
  LET game == BoundGame(st, playerId)
      color == getPlayerColor(game, playerId)
  IN IF game = NoGame THEN [st |-> st, ret |-> Undefined]
     ELSE IF game.outcome # NoOutcome THEN [st |-> st, ret |-> Undefined]
     ELSE IF color = NoColor THEN [st |-> st, ret |-> Fault]
     ELSE [st |-> [st EXCEPT !.games[game.id] =
                     [game EXCEPT !.drawOfferedBy = color, !.updatedAt = t]],
           ret |-> game.id]

offerDraw(st, playerId, t) ==
  LET game == BoundGame(st, playerId)
      color == getPlayerColor(game, playerId)
  IN IF game = NoGame THEN [st |-> st, ret |-> Undefined]
     ELSE IF game.outcome # NoOutcome THEN [st |-> st, ret |-> Undefined]
     ELSE IF game.drawOfferedBy # NoColor THEN [st |-> st, ret |-> Undefined]
     ELSE IF color = NoColor THEN [st |-> st, ret |-> Fault]
     ELSE [st |-> [st EXCEPT !.games[game.id] =
                     [game EXCEPT !.drawOfferedBy = color, !.updatedAt = t]],
           ret |-> game.id]

\* variant of acceptDraw without the test for the caller's own offer
acceptDraw_OwnOffer(st, playerId, t) ==
  LET game == BoundGame(st, playerId)
      color == getPlayerColor(game, playerId)
  IN IF game = NoGame THEN [st |-> st, ret |-> Undefined]
     ELSE IF game.outcome # NoOutcome THEN [st |-> st, ret |-> Undefined]
     ELSE IF game.drawOfferedBy = NoColor THEN [st |-> st, ret |-> Undefined]
     ELSE IF color = NoColor THEN [st |-> st, ret |-> Fault]
     ELSE [st |-> [st EXCEPT !.games[game.id] =
                     [game EXCEPT !.outcome = [winner |-> NoColor, reason |-> "draw"],
                                  !.drawOfferedBy = NoColor,
                                  !.updatedAt = t]],
           ret |-> game.id]

acceptDraw(st, playerId, t) ==
  LET game == BoundGame(st, playerId)
      color == getPlayerColor(game, playerId)
  IN IF game = NoGame THEN [st |-> st, ret |-> Undefined]
     ELSE IF game.outcome # NoOutcome THEN [st |-> st, ret |-> Undefined]
     ELSE IF game.drawOfferedBy = NoColor THEN [st |-> st, ret |-> Undefined]
     ELSE IF color = NoColor THEN [st |-> st, ret |-> Fault]
     ELSE IF game.drawOfferedBy = color THEN [st |-> st, ret |-> Undefined]
     ELSE [st |-> [st EXCEPT !.games[game.id] =
                     [game EXCEPT !.outcome = [winner |-> NoColor, reason |-> "draw"],
                                  !.drawOfferedBy = NoColor,
                                  !.updatedAt = t]],
           ret |-> game.id]

\* variant of resign that names the resigning side the winner
resign_WinnerSelf(st, playerId, t) ==
  LET game == BoundGame(st, playerId)
      color == getPlayerColor(game, playerId)
  IN IF game = NoGame THEN [st |-> st, ret |-> Undefined]
     ELSE IF game.outcome # NoOutcome THEN [st |-> st, ret |-> Undefined]
     ELSE IF color = NoColor THEN [st |-> st, ret |-> Fault]
     ELSE [st |-> [st EXCEPT !.games[game.id] =
                     [game EXCEPT
                        !.outcome = [winner |-> color, reason |-> "resignation"],
                        !.updatedAt = t]],
           ret |-> game.id]

\* variant of resign without the test of game.outcome
resign_OnConcluded(st, playerId, t) ==
  LET game == BoundGame(st, playerId)
      color == getPlayerColor(game, playerId)
  IN IF game = NoGame THEN [st |-> st, ret |-> Undefined]
     ELSE IF color = NoColor THEN [st |-> st, ret |-> Fault]
     ELSE [st |-> [st EXCEPT !.games[game.id] =
                     [game EXCEPT
                        !.outcome = [winner |-> Opposite(color), reason |-> "resignation"],
                        !.updatedAt = t]],
           ret |-> game.id]

resign(st, playerId, t) ==
  LET game == BoundGame(st, playerId)
      color == getPlayerColor(game, playerId)
  IN IF game = NoGame THEN [st |-> st, ret |-> Undefined]
     ELSE IF game.outcome # NoOutcome THEN [st |-> st, ret |-> Undefined]
     ELSE IF color = NoColor THEN [st |-> st, ret |-> Fault]
     ELSE [st |-> [st EXCEPT !.games[game.id] =
                     [game EXCEPT
                        !.outcome = [winner |-> Opposite(color), reason |-> "resignation"],
                        !.updatedAt = t]],
           ret |-> game.id]

\* the outcome makeMove derives from the engine's terminal tests, in their order
MoveOutcome(move, color) ==
  IF move = "checkmate" THEN [winner |-> color, reason |-> "checkmate"]
  ELSE IF move = "stalemate" THEN [winner |-> NoColor, reason |-> "stalemate"]
  ELSE IF move = "insufficient" THEN [winner |-> NoColor, reason |-> "insufficient_material"]
  ELSE IF move = "threefold" THEN [winner |-> NoColor, reason |-> "threefold_repetition"]
  ELSE IF move = "draw" THEN [winner |-> NoColor, reason |-> "draw"]
  ELSE NoOutcome

\* variant of makeMove that ignores the engine's rejection
makeMove_AnyMove(st, playerId, move, t) ==
  LET game == BoundGame(st, playerId)
      color == getPlayerColor(game, playerId)
  IN IF game = NoGame THEN [st |-> st, ret |-> Undefined]
     ELSE IF game.outcome # NoOutcome THEN [st |-> st, ret |-> Undefined]
     ELSE IF color = NoColor THEN [st |-> st, ret |-> Fault]
     ELSE IF Turn(game.fen) # color THEN [st |-> st, ret |-> Undefined]
     ELSE [st |-> [st EXCEPT !.games[game.id] =
                     [game EXCEPT !.fen = FenAfter(game.fen, move),
                                  !.moves = Append(game.moves, move),
                                  !.updatedAt = t,
                                  !.outcome = MoveOutcome(move, color)]],
           ret |-> game.id]

\* variant of makeMove without the test of the side to move
makeMove_AnyTurn(st, playerId, move, t) ==
  LET game == BoundGame(st, playerId)
      color == getPlayerColor(game, playerId)
  IN IF game = NoGame THEN [st |-> st, ret |-> Undefined]
     ELSE IF game.outcome # NoOutcome THEN [st |-> st, ret |-> Undefined]
     ELSE IF color = NoColor THEN [st |-> st, ret |-> Fault]
     ELSE IF ~Legal(game.fen, move) THEN [st |-> st, ret |-> Undefined]
     ELSE [st |-> [st EXCEPT !.games[game.id] =
                     [game EXCEPT !.fen = FenAfter(game.fen, move),
                                  !.moves = Append(game.moves, move),
                                  !.updatedAt = t,
                                  !.outcome = MoveOutcome(move, color)]],
           ret |-> game.id]

\* variant of makeMove that records the move and leaves game.fen as it was
makeMove_KeepsFen(st, playerId, move, t) ==
  LET game == BoundGame(st, playerId)
      color == getPlayerColor(game, playerId)
  IN IF game = NoGame THEN [st |-> st, ret |-> Undefined]
     ELSE IF game.outcome # NoOutcome THEN [st |-> st, ret |-> Undefined]
     ELSE IF color = NoColor THEN [st |-> st, ret |-> Fault]
     ELSE IF Turn(game.fen) # color THEN [st |-> st, ret |-> Undefined]
     ELSE IF ~Legal(game.fen, move) THEN [st |-> st, ret |-> Undefined]
     ELSE [st |-> [st EXCEPT !.games[game.id] =
                     [game EXCEPT !.moves = Append(game.moves, move),
                                  !.updatedAt = t,
                                  !.outcome = MoveOutcome(move, color)]],
           ret |-> game.id]

makeMove(st, playerId, move, t) ==
  LET game == BoundGame(st, playerId)
      color == getPlayerColor(game, playerId)
  IN IF game = NoGame THEN [st |-> st, ret |-> Undefined]
     ELSE IF game.outcome # NoOutcome THEN [st |-> st, ret |-> Undefined]
     ELSE IF color = NoColor THEN [st |-> st, ret |-> Fault]
     ELSE IF Turn(game.fen) # color THEN [st |-> st, ret |-> Undefined]
     ELSE IF ~Legal(game.fen, move) THEN [st |-> st, ret |-> Undefined]
     ELSE [st |-> [st EXCEPT !.games[game.id] =
                     [game EXCEPT !.fen = FenAfter(game.fen, move),
                                  !.moves = Append(game.moves, move),
                                  !.updatedAt = t,
                                  !.outcome = MoveOutcome(move, color)]],
           ret |-> game.id]

\* ---- CleaningService ----
\* variant of the staleness test that also takes an object exactly at the threshold
Stale_AtThreshold(obj, t) == obj.updatedAt + StaleThreshold <= t

Stale(obj, t) == obj.updatedAt + StaleThreshold < t

RECURSIVE EraseAll(_, _)
EraseAll(st, objs) ==
  IF objs = {} THEN st
  ELSE LET obj == CHOOSE o \in objs : TRUE
       IN EraseAll(eraseGame(st, obj), objs \ {obj})

\* one run of monitorCleanup over the snapshot of the map
StaleObjects(st, t) == {obj \in getAllGames(st) : Stale(obj, t)}

\* variant of monitorCleanup that finds nothing to hand to the protocol
monitorCleanup_Idle(st, t) == EraseAll(st, {})

monitorCleanup(st, t) == EraseAll(st, StaleObjects(st, t))

\* an object the run hands to the protocol, NoGame when there is none
Evicted(st, t) ==
  IF StaleObjects(st, t) = {} THEN NoGame
  ELSE CHOOSE obj \in StaleObjects(st, t) : TRUE

\* ---- chessSockets: timers ----
\* Map.delete(userId) on timerMap: no pending timer is the user's entry any more
Unmap(ts, userId) ==
  [i \in 1..Len(ts) |->
     IF ts[i].user = userId THEN [ts[i] EXCEPT !.mapped = FALSE] ELSE ts[i]]

\* clearTimeout(timerMap.get(userId)): the user's entry, if pending, never fires
ClearMapped(ts, userId) ==
  SelectSeq(ts, LAMBDA e : ~(e.user = userId /\ e.mapped))

Tail1(ts) == SubSeq(ts, 2, Len(ts))

\* setTimeout(..., 5000) followed by timerMap.set(userId, timer)
StartTimer(ts, userId, t) ==
  Append(Unmap(ts, userId), [user |-> userId, mapped |-> TRUE, due |-> t + GraceDelay])

\* the both-sides-down test of the disconnect handler
BothDown(game) ==
  ~game.players["white"].connected /\ ~game.players["black"].connected

\* the outcome the disconnect handler writes when both sides are down
AbandonOutcome(game) ==
  [winner |-> IF game.players["white"].connected THEN "white"
              ELSE IF game.players["black"].connected THEN "black"
              ELSE NoColor,
   reason |-> "resignation"]

\* ---- bookkeeping shared by the actions ----
SetStore(st) ==
  /\ games' = st.games
  /\ gameMap' = st.gameMap
  /\ playerMap' = st.playerMap

\* the Game object a call returned, as it is when the handler ends
Returned(st, ret) == IF ret \in GameIds THEN st.games[ret] ELSE NoGame

\* the last call: its name, caller, result, and the game id it was given if any
\* (for a sweep: the number of objects it found stale)
RecordArg(op, playerId, arg, ret, game) ==
  last' = [op |-> op, player |-> playerId, arg |-> arg, ret |-> ret, game |-> game]

Record(op, playerId, ret, game) == RecordArg(op, playerId, 0, ret, game)

SocketsUnchanged == UNCHANGED <<timers, timerMap, socketMap, live, crashed>>

LiveGames(st) == GameIds \ FreeIds(st)

\* ---- chessSockets: handlers ----
OnConnection(p) ==
  /\ ~crashed
  /\ UNCHANGED calls
  /\ live[p] < MaxSockets
  /\ LET r == connect(Store, p, Now)
     IN /\ socketMap' = socketMap \cup {p}
        /\ SetStore(r.st)
        /\ Record("on:connection", p, r.ret, Returned(r.st, r.ret))
        /\ crashed' = (r.ret = Fault)
        /\ live' = IF r.ret = Fault THEN live ELSE [live EXCEPT ![p] = @ + 1]
        /\ IF r.ret \in GameIds
           THEN /\ timers' = ClearMapped(timers, p)
                /\ timerMap' = [timerMap EXCEPT ![p] = "none"]
           ELSE UNCHANGED <<timers, timerMap>>
        /\ UNCHANGED <<cleanupTimer, stopped>>

OnDisconnect(p) ==
  /\ ~crashed
  /\ UNCHANGED calls
  /\ live[p] > 0
  /\ LET r == disconnect(Store, p, Now)
         game == Returned(r.st, r.ret)
         ended == [game EXCEPT !.outcome = AbandonOutcome(game)]
     IN /\ socketMap' = socketMap \ {p}
        /\ live' = [live EXCEPT ![p] = @ - 1]
        /\ IF r.ret \notin GameIds
           THEN /\ SetStore(r.st)
                /\ Record("on:disconnect", p, r.ret, NoGame)
                /\ UNCHANGED <<timers, timerMap>>
           ELSE IF BothDown(game)
           THEN /\ SetStore(eraseGame([r.st EXCEPT !.games[game.id] = ended], ended))
                /\ Record("on:disconnect", p, r.ret, ended)
                /\ UNCHANGED <<timers, timerMap>>
           ELSE /\ Len(timers) < MaxTimers
                /\ SetStore(r.st)
                /\ timers' = StartTimer(timers, p, Now)
                /\ timerMap' = [timerMap EXCEPT ![p] = "pending"]
                /\ Record("on:disconnect", p, r.ret, game)
        /\ UNCHANGED <<cleanupTimer, stopped, crashed>>

\* the callback of the grace timer that is due first
OnTimer ==
  /\ ~crashed
  /\ UNCHANGED calls
  /\ timers # <<>>
  /\ timers[1].due <= Now
  /\ LET p == timers[1].user
         r == disconnect(Store, p, Now)
     IN /\ SetStore(r.st)
        /\ crashed' = (r.ret = Fault)
        /\ IF r.ret = Fault
           THEN /\ timers' = Tail1(timers)
                /\ timerMap' = [timerMap EXCEPT ![p] =
                                  IF timers[1].mapped THEN "fired" ELSE @]
           ELSE /\ timers' = Unmap(Tail1(timers), p)
                /\ timerMap' = [timerMap EXCEPT ![p] = "none"]
        /\ Record("timer", p, r.ret, Returned(r.st, r.ret))
        /\ UNCHANGED <<cleanupTimer, stopped, socketMap, live>>

OnRequestLobby(p) ==
  /\ ~crashed
  /\ UNCHANGED calls
  /\ live[p] > 0
  /\ Record("on:requestLobby", p, Undefined, NoGame)
  /\ UNCHANGED <<games, gameMap, playerMap, cleanupTimer, stopped>>
  /\ SocketsUnchanged

OnCreateGame(p, color) ==
  /\ ~crashed
  /\ UNCHANGED calls
  /\ live[p] > 0
  /\ BoundGame(Store, p) = NoGame => Cardinality(LiveGames(Store)) < MaxOpen
  /\ LET r == createGame(Store, p, color, Now)
     IN /\ SetStore(r.st)
        /\ Record("on:createGame", p, r.ret, Returned(r.st, r.ret))
  /\ UNCHANGED <<cleanupTimer, stopped>>
  /\ SocketsUnchanged

OnJoinGame(p, gameId) ==
  /\ ~crashed
  /\ UNCHANGED calls
  /\ live[p] > 0
  /\ LET r == joinGame(Store, p, gameId, Now)
     IN /\ SetStore(r.st)
        /\ RecordArg("on:joinGame", p, gameId, r.ret, Returned(r.st, r.ret))
  /\ UNCHANGED <<cleanupTimer, stopped>>
  /\ SocketsUnchanged

\* a player of a payload: the id is dropped (the username, looked up in
\* userMap, is not part of the model)
sanitizedPlayer(player) ==
  IF player = NoPlayer THEN [connected |-> FALSE, present |-> FALSE]
  ELSE [connected |-> player.connected, present |-> TRUE]

\* the payload of updateChessLink for the side color: the fields of the Game,
\* its players sanitized, and the recipient's side
chessLink(game, color) ==
  [f \in (DOMAIN game) \cup {"color"} |->
     IF f = "color" THEN color
     ELSE IF f = "players"
          THEN [c \in Colors |-> sanitizedPlayer(game.players[c])]
          ELSE game[f]]

\* what a client reads as view.pendingDraw: a field the payload lacks is
\* undefined, which is not true
pendingDraw(view) ==
  IF "pendingDraw" \in DOMAIN view THEN view["pendingDraw"] ELSE FALSE

\* emitGame(io, game): the users that are sent updateChessLink, one view for
\* each side that has a player, marked connected, with an entry in socketMap
emitGame(game, sockets) ==
  IF game = NoGame THEN {}
  ELSE {game.players[color].id :
          color \in {c \in Colors : /\ Occupied(game, c)
                                   /\ game.players[c].connected
                                   /\ game.players[c].id \in sockets}}

OnResign(p) ==
  /\ ~crashed
  /\ UNCHANGED calls
  /\ live[p] > 0
  /\ LET r1 == resign(Store, p, Now)
         r2 == disconnect(r1.st, p, Now)
         game == Returned(r2.st, r2.ret)
     IN IF r1.ret = Fault
        THEN /\ SetStore(r1.st)
             /\ Record("on:resign", p, Fault, NoGame)
        ELSE /\ SetStore(eraseGame(r2.st, game))
             /\ Record("on:resign", p, r2.ret, game)
  /\ UNCHANGED <<cleanupTimer, stopped>>
  /\ SocketsUnchanged

OnAcceptDraw(p) ==
  /\ ~crashed
  /\ UNCHANGED calls
  /\ live[p] > 0
  /\ LET r == acceptDraw(Store, p, Now)
         game == Returned(r.st, r.ret)
     IN /\ SetStore(eraseGame(r.st, game))
        /\ Record("on:acceptDraw", p, r.ret, game)
  /\ UNCHANGED <<cleanupTimer, stopped>>
  /\ SocketsUnchanged

OnOfferDraw(p) ==
  /\ ~crashed
  /\ UNCHANGED calls
  /\ live[p] > 0
  /\ LET r == offerDraw(Store, p, Now)
     IN /\ SetStore(r.st)
        /\ Record("on:offerDraw", p, r.ret, Returned(r.st, r.ret))
  /\ UNCHANGED <<cleanupTimer, stopped>>
  /\ SocketsUnchanged

\* sanitizeGames(games): the payload of updateLobby, every Game with its
\* players sanitized
sanitizeGames(gs) ==
  {[f \in DOMAIN game |->
      IF f = "players" THEN [c \in Colors |-> sanitizedPlayer(game.players[c])]
      ELSE game[f]] : game \in gs}

\* the updateLobby payload of the makeMove handler: it is built from the
\* registry as gameManager.makeMove left it, before the handler erases anything;
\* nothing is broadcast when makeMove returned no Game
makeMoveLobby(st, playerId, move, t) ==
  LET r == makeMove(st, playerId, move, t)
  IN IF r.ret \in GameIds THEN sanitizeGames(getAllGames(r.st)) ELSE {}

OnMakeMove(p, move) ==
  /\ ~crashed
  /\ UNCHANGED calls
  /\ live[p] > 0
  /\ BoundGame(Store, p) # NoGame => BoundGame(Store, p).fen.ply < MaxPly
  /\ LET r == makeMove(Store, p, move, Now)
         game == Returned(r.st, r.ret)
     IN /\ SetStore(IF game # NoGame /\ game.outcome # NoOutcome
                    THEN eraseGame(r.st, game) ELSE r.st)
        /\ Record("on:makeMove", p, r.ret, game)
  /\ UNCHANGED <<cleanupTimer, stopped>>
  /\ SocketsUnchanged

\* ---- GameManager used directly: its public methods ----
Step ==
  /\ calls < MaxCalls
  /\ calls' = calls + 1

CallArg(op, p, arg, r) ==
  /\ Step
  /\ SetStore(r.st)
  /\ RecordArg(op, p, arg, r.ret, Returned(r.st, r.ret))
  /\ UNCHANGED <<cleanupTimer, stopped>>
  /\ SocketsUnchanged

Call(op, p, r) == CallArg(op, p, 0, r)

ApiConnect(p) == Call("connect", p, connect(Store, p, Now))

ApiDisconnect(p) == Call("disconnect", p, disconnect(Store, p, Now))

ApiCreateGame(p, color) ==
  /\ BoundGame(Store, p) = NoGame => FreeIds(Store) # {}
  /\ Call("createGame", p, createGame(Store, p, color, Now))

ApiJoinGame(p, gameId) ==
  CallArg("joinGame", p, gameId, joinGame(Store, p, gameId, Now))

ApiOfferDraw(p) == Call("offerDraw", p, offerDraw(Store, p, Now))

ApiAcceptDraw(p) == Call("acceptDraw", p, acceptDraw(Store, p, Now))

ApiResign(p) == Call("resign", p, resign(Store, p, Now))

ApiMakeMove(p, move) ==
  /\ BoundGame(Store, p) # NoGame => BoundGame(Store, p).fen.ply < MaxPly
  /\ Call("makeMove", p, makeMove(Store, p, move, Now))

\* eraseGame handed a Game of the registry, as its callers do
ApiEraseGame(gameId) ==
  /\ gameId \in gameMap
  /\ Step
  /\ SetStore(eraseGame(Store, games[gameId]))
  /\ Record("eraseGame", NoId, gameId, games[gameId])
  /\ UNCHANGED <<cleanupTimer, stopped>>
  /\ SocketsUnchanged

\* ---- time ----
TimerDue ==
  \/ (timers # <<>> /\ timers[1].due <= Now)
  \/ (cleanupTimer # NoTimer /\ cleanupTimer <= Now)

Older(t) == IF t - 1 < Oldest THEN Oldest ELSE t - 1

\* the run of monitorCleanup its own timer starts, and the timer it sets again
RunCleanup ==
  /\ ~crashed
  /\ cleanupTimer # NoTimer
  /\ cleanupTimer <= Now
  /\ SetStore(monitorCleanup(Store, Now))
  /\ cleanupTimer' = Now + CleanupInterval
  /\ RecordArg("sweep", NoId, Cardinality(StaleObjects(Store, Now)), Undefined,
               Evicted(Store, Now))
  /\ UNCHANGED stopped
  /\ SocketsUnchanged

\* the clock advances by one unit; a timer that is due runs first
Advance ==
  /\ ~crashed
  /\ ~TimerDue
  /\ games' = [g \in GameIds |->
                 IF games[g] = NoGame THEN NoGame
                 ELSE [games[g] EXCEPT !.updatedAt = Older(@)]]
  /\ timers' = [i \in 1..Len(timers) |-> [timers[i] EXCEPT !.due = @ - 1]]
  /\ cleanupTimer' = IF cleanupTimer = NoTimer THEN NoTimer ELSE cleanupTimer - 1
  /\ Record("tick", NoId, Undefined, NoGame)
  /\ UNCHANGED <<gameMap, playerMap, stopped, timerMap, socketMap, live, crashed>>

Sweep == RunCleanup /\ UNCHANGED calls

Tick == Advance /\ UNCHANGED calls

ApiSweep == RunCleanup /\ Step

ApiTick == Advance /\ Step

Init ==
  /\ games = [g \in GameIds |-> NoGame]
  /\ gameMap = {}
  /\ playerMap = [p \in Players |-> 0]
  /\ cleanupTimer = CleanupInterval
  /\ stopped = FALSE
  /\ timers = <<>>
  /\ timerMap = [p \in Players |-> "none"]
  /\ socketMap = {}
  /\ live = [p \in Players |-> 0]
  /\ crashed = FALSE
  /\ calls = 0
  /\ last = [op |-> "init", player |-> NoId, arg |-> 0, ret |-> Undefined,
             game |-> NoGame]

Next ==
  \/ \E p \in Players : OnConnection(p)
  \/ \E p \in Players : OnDisconnect(p)
  \/ OnTimer
  \/ \E p \in Players : OnRequestLobby(p)
  \/ \E p \in Players, color \in ColorInputs : OnCreateGame(p, color)
  \/ \E p \in Players, gameId \in GameIds : OnJoinGame(p, gameId)
  \/ \E p \in Players : OnResign(p)
  \/ \E p \in Players : OnAcceptDraw(p)
  \/ \E p \in Players : OnOfferDraw(p)
  \/ \E p \in Players, move \in Moves : OnMakeMove(p, move)
  \/ Sweep
  \/ Tick

Spec == Init /\ [][Next]_vars

\* The event loop runs a timer that is due (setTimeout callbacks are not
\* starved) and time passes once no timer is due; clients are under no
\* obligation to send anything.
SpecLive ==
  Spec /\ WF_vars(Tick) /\ WF_vars(Sweep) /\ WF_vars(OnTimer)

NextApi ==
  \/ \E p \in Players : ApiConnect(p)
  \/ \E p \in Players : ApiDisconnect(p)
  \/ \E p \in Players, color \in ColorInputs : ApiCreateGame(p, color)
  \/ \E p \in Players, gameId \in GameIds : ApiJoinGame(p, gameId)
  \/ \E p \in Players : ApiOfferDraw(p)
  \/ \E p \in Players : ApiAcceptDraw(p)
  \/ \E p \in Players : ApiResign(p)
  \/ \E p \in Players, move \in Moves : ApiMakeMove(p, move)
  \/ \E gameId \in GameIds : ApiEraseGame(gameId)
  \/ ApiSweep
  \/ ApiTick

SpecApi == Init /\ [][NextApi]_vars

\* ---- CleaningService on its own: any owner of the map, any cleanup protocol ----
TimestampedObject(id, t) == [id |-> id, updatedAt |-> t]

\* variant of stopCleanup that leaves the pending timer alone
stopCleanup_KeepsTimer(timer) == timer

\* stopCleanup(): the timer in cleanupTimer, if pending, is cleared
stopCleanup(timer) == NoTimer

\* one run of monitorCleanup over the stale entries `ids`, with a protocol that
\* deletes the entry it is given: it deletes the entries `done` and then either
\* is through (done = ids) and sets the next timer, or something in the
\* iteration throws, which leaves as CleanupException before a timer is set
cleanerRun(ids, done, t) ==
  [deleted |-> done,
   timer |-> IF done = ids THEN t + CleanupInterval ELSE NoTimer,
   ret |-> IF done = ids THEN Undefined ELSE Fault]

StaleIds == {g \in gameMap : Stale(games[g], Now)}

CleanerDue == cleanupTimer # NoTimer /\ cleanupTimer <= Now

CleanerFrame == UNCHANGED <<playerMap, calls>> /\ SocketsUnchanged

\* the owner sets an entry of the map to an object touched now
CleanerSet(id) ==
  /\ games' = [games EXCEPT ![id] = TimestampedObject(id, Now)]
  /\ gameMap' = gameMap \cup {id}
  /\ RecordArg("set", NoId, id, Undefined, NoGame)
  /\ UNCHANGED <<cleanupTimer, stopped>>
  /\ CleanerFrame

CleanerApply(r) ==
  /\ games' = [g \in GameIds |-> IF g \in r.deleted THEN NoGame ELSE games[g]]
  /\ gameMap' = gameMap \ r.deleted
  /\ cleanupTimer' = r.timer
  /\ RecordArg("sweep", NoId, Cardinality(StaleIds), r.ret, NoGame)
  /\ UNCHANGED stopped
  /\ CleanerFrame

\* the timer fires and monitorCleanup runs through
CleanerSweep ==
  /\ CleanerDue
  /\ CleanerApply(cleanerRun(StaleIds, StaleIds, Now))

\* the timer fires and monitorCleanup fails, at an entry or before the first
CleanerSweepFault ==
  /\ CleanerDue
  /\ \E done \in SUBSET StaleIds :
       /\ done # StaleIds \/ StaleIds = {}
       /\ CleanerApply([cleanerRun(StaleIds, done, Now) EXCEPT
                          !.timer = NoTimer, !.ret = Fault])

CleanerStop ==
  /\ cleanupTimer' = stopCleanup(cleanupTimer)
  /\ stopped' = TRUE
  /\ Record("stopCleanup", NoId, Undefined, NoGame)
  /\ UNCHANGED <<games, gameMap>>
  /\ CleanerFrame

NextCleaner ==
  \/ \E id \in GameIds : CleanerSet(id)
  \/ CleanerSweep
  \/ CleanerSweepFault
  \/ CleanerStop
  \/ Tick

SpecCleaner == Init /\ [][NextCleaner]_vars

\* ---- vocabulary of the claims ----
Waiting(game) ==
  /\ game # NoGame
  /\ game.outcome = NoOutcome
  /\ Cardinality({c \in Colors : Occupied(game, c)}) = 1

Active(game) ==
  /\ game # NoGame
  /\ game.outcome = NoOutcome
  /\ \A c \in Colors : Occupied(game, c)

Seated(game, p) == game # NoGame /\ getPlayerColor(game, p) # NoColor

PendingFor(p) == {i \in 1..Len(timers) : timers[i].user = p}

\* p is down in an Active match whose other side is up, p's grace timer running
C1_Pre(p) ==
  LET game == BoundGame(Store, p)
      color == getPlayerColor(game, p)
  IN /\ Active(game)
     /\ color # NoColor
     /\ ~game.players[color].connected
     /\ game.players[Opposite(color)].id # p
     /\ game.players[Opposite(color)].connected
     /\ timerMap[p] = "pending"

C1_Restored(p, gameId) ==
  /\ gameId \in gameMap
  /\ playerMap[p] = gameId
  /\ games[gameId].players[getPlayerColor(games[gameId], p)].connected

\* C1: when p, down in an Active match whose other side is up, reconnects before
\* its grace timer fires, then p's side is connected again, no grace timer of p is
\* pending, and the match is still in the registry with p bound to it.
C1_ReconnectRestores ==
  [][\A p \in Players :
       (C1_Pre(p) /\ last'.op = "on:connection" /\ last'.player = p)
       => (C1_Restored(p, playerMap[p])' /\ PendingFor(p)' = {})]_vars

\* p, up, sits in an Active match whose other side is another player marked down
C2_Pre(p) ==
  LET game == BoundGame(Store, p)
      color == getPlayerColor(game, p)
  IN /\ Active(game)
     /\ color # NoColor
     /\ game.players[Opposite(color)].id # p
     /\ ~game.players[Opposite(color)].connected

\* C2: in an Active match, when a player disconnects while the other side is
\* already marked disconnected, the disconnect handler itself sets an outcome
\* with reason resignation, erases the match and unbinds both players; no grace
\* timer is started or awaited.
C2_MutualDisconnectEnds ==
  [][\A p \in Players :
       (C2_Pre(p) /\ last'.op = "on:disconnect" /\ last'.player = p)
       => /\ last'.game.id = playerMap[p]
          /\ last'.game.outcome.reason = "resignation"
          /\ playerMap[p] \notin gameMap'
          /\ \A c \in Colors : playerMap'[games[playerMap[p]].players[c].id] = 0
          /\ timers' = timers
          /\ timerMap' = timerMap]_vars

C2_Witness ==
  /\ last.op = "on:disconnect"
  /\ last.game # NoGame
  /\ \A c \in Colors : Occupied(last.game, c) /\ ~last.game.players[c].connected
  /\ last.game.players["white"].id # last.game.players["black"].id
  /\ last.game.outcome.reason = "resignation"
  /\ last.game.id \notin gameMap
  /\ \A c \in Colors : playerMap[last.game.players[c].id] = 0

\* C3: when the sole occupant of a Waiting match disconnects, the match is not
\* concluded or erased and a grace timer is started for that player instead (the
\* short-circuit is for an other side occupied by a disconnected player).
C3_WaitingDisconnectKeepsMatch ==
  [][\A p \in Players :
       (/\ Waiting(BoundGame(Store, p))
        /\ Seated(BoundGame(Store, p), p)
        /\ last'.op = "on:disconnect" /\ last'.player = p)
       => /\ playerMap[p] \in gameMap'
          /\ playerMap'[p] = playerMap[p]
          /\ games'[playerMap[p]].outcome = NoOutcome
          /\ timerMap'[p] = "pending"]_vars

\* C4: erasing a match removes it from the registry and clears the binding of
\* exactly the identities bound to it; an identity seated in the erased match
\* but bound to another match keeps its binding, and the other matches are
\* unchanged.
C4_EraseClearsOnlyItsBindings ==
  [][\A g \in GameIds :
       (last'.op = "eraseGame" /\ last'.ret = g)
       => /\ g \notin gameMap'
          /\ \A q \in Players :
               playerMap'[q] = IF playerMap[q] = g THEN 0 ELSE playerMap[q]
          /\ \A h \in gameMap \ {g} : h \in gameMap' /\ games'[h] = games[h]]_vars

C7_MoveOnlyOnOwnTurn ==
  [][\A p \in Players :
       (last'.op = "makeMove" /\ last'.player = p)
       => LET game == BoundGame(Store, p)
              color == getPlayerColor(game, p)
              toMove == IF game.fen.turn = "w" THEN "white" ELSE "black"
          IN /\ last'.ret \in GameIds => (game # NoGame /\ color = toMove)
             /\ (game # NoGame /\ color # NoColor /\ color # toMove)
                  => (last'.ret = Undefined /\ games' = games)]_vars

\* the player who has just moved in an Active match tries to move again
C7_Witness ==
  /\ last.op = "makeMove"
  /\ last.ret = Undefined
  /\ Active(BoundGame(Store, last.player))
  /\ Len(BoundGame(Store, last.player).moves) = 1
  /\ getPlayerColor(BoundGame(Store, last.player), last.player) = "white"
  /\ BoundGame(Store, last.player).fen.turn = "b"

C8_Ops == {"makeMove", "offerDraw", "acceptDraw", "resign"}

\* C8: once the outcome of a match is set, makeMove, offerDraw, acceptDraw and
\* resign by a player bound to it return undefined, and no field of the match
\* changes.
C8_ConcludedRejectsPlay ==
  [][\A p \in Players :
       (/\ last'.op \in C8_Ops /\ last'.player = p
        /\ BoundGame(Store, p) # NoGame
        /\ BoundGame(Store, p).outcome # NoOutcome)
       => /\ last'.ret = Undefined
          /\ games' = games
          /\ gameMap' = gameMap]_vars

\* the loser of a checkmated match, still in the registry, resigns
C8_Witness ==
  /\ last.op = "resign"
  /\ last.ret = Undefined
  /\ playerMap[last.player] \in gameMap
  /\ BoundGame(Store, last.player).outcome.reason = "checkmate"
  /\ getPlayerColor(BoundGame(Store, last.player), last.player) = "black"

\* C9: once the outcome of a match is set, no operation of the store changes
\* the match's fen, moves, players (occupancy or connected flags) or outcome
\* while the match is in the registry.
C9_ConcludedIsFrozen ==
  [][\A g \in GameIds :
       (g \in gameMap /\ g \in gameMap' /\ games[g].outcome # NoOutcome)
       => /\ games'[g].fen = games[g].fen
          /\ games'[g].moves = games[g].moves
          /\ games'[g].players = games[g].players
          /\ games'[g].outcome = games[g].outcome]_vars

\* C10: a match of the registry whose drawOfferedBy is set has both sides
\* occupied and no outcome.
C10_OfferOnlyInActiveMatch ==
  \A g \in gameMap :
    games[g].drawOfferedBy # NoColor => Active(games[g])

\* both sides occupied, by two different players
TwoPlayers(game) ==
  /\ game # NoGame
  /\ \A c \in Colors : Occupied(game, c)
  /\ game.players["white"].id # game.players["black"].id

\* an Active match played by two different players
Opponents(game) == Active(game) /\ TwoPlayers(game)

SidesOccupied(game) == Cardinality({c \in Colors : Occupied(game, c)})

\* C12: for every match of the registry, joinable is true exactly when fewer
\* than two sides are occupied (and no match has more than two occupied sides).
C12_JoinableIffOpenSide ==
  \A g \in gameMap :
    /\ SidesOccupied(games[g]) <= 2
    /\ games[g].joinable <=> (SidesOccupied(games[g]) < 2)

C14_RejoinIsNoOp ==
  [][\A p \in Players, g \in GameIds :
       (/\ last'.op = "joinGame" /\ last'.player = p /\ last'.arg = g
        /\ g \in gameMap
        /\ Seated(games[g], p))
       => /\ last'.ret # Fault
          /\ g \in gameMap'
          /\ games'[g] = games[g]]_vars

\* C15: makeMove on a Waiting match (one side occupied) is rejected and changes
\* neither the fen nor the moves of the match, even when the sole player's
\* side is the side to move.
C15_MoveNeedsActive ==
  [][\A p \in Players :
       (/\ last'.op = "makeMove" /\ last'.player = p
        /\ Waiting(BoundGame(Store, p)))
       => /\ last'.ret \notin GameIds
          /\ games'[playerMap[p]].fen = games[playerMap[p]].fen
          /\ games'[playerMap[p]].moves = games[playerMap[p]].moves]_vars

\* C16: offerDraw on a Waiting match (one side occupied) is a no-op and leaves
\* drawOfferedBy unset.
C16_OfferNeedsActive ==
  [][\A p \in Players :
       (/\ last'.op = "offerDraw" /\ last'.player = p
        /\ Waiting(BoundGame(Store, p))
        /\ BoundGame(Store, p).drawOfferedBy = NoColor)
       => /\ last'.ret \notin GameIds
          /\ games'[playerMap[p]] = games[playerMap[p]]]_vars

C18_AcceptOnlyOtherSidesOffer ==
  [][\A p \in Players :
       (last'.op = "acceptDraw" /\ last'.player = p /\ BoundGame(Store, p) # NoGame)
       => LET game == BoundGame(Store, p)
              color == getPlayerColor(game, p)
              mine == color # NoColor /\ game.drawOfferedBy = color
              theirs == color # NoColor /\ game.drawOfferedBy = Opposite(color)
          IN /\ last'.ret \in GameIds
                  => /\ theirs
                     /\ games'[game.id].outcome = [winner |-> NoColor, reason |-> "draw"]
                     /\ games'[game.id].drawOfferedBy = NoColor
             /\ (theirs /\ game.outcome = NoOutcome) => last'.ret = game.id
             /\ (game.drawOfferedBy = NoColor \/ mine)
                  => (last'.ret = Undefined /\ games' = games)]_vars

\* an offer of the other side has just been accepted
C18_Witness ==
  /\ last.op = "acceptDraw"
  /\ last.ret \in gameMap
  /\ TwoPlayers(games[last.ret])
  /\ games[last.ret].outcome = [winner |-> NoColor, reason |-> "draw"]
  /\ games[last.ret].drawOfferedBy = NoColor

\* C19: resign by a player seated in a match that has no outcome sets outcome
\* to {winner: the side opposite to the resigning player, reason: resignation}
\* and changes neither the fen nor the moves.
C19_ResignNamesOtherSide ==
  [][\A p \in Players :
       (/\ last'.op = "resign" /\ last'.player = p
        /\ Seated(BoundGame(Store, p), p)
        /\ BoundGame(Store, p).outcome = NoOutcome)
       => LET game == BoundGame(Store, p)
          IN /\ last'.ret = game.id
             /\ games'[game.id].outcome =
                  [winner |-> Opposite(getPlayerColor(game, p)),
                   reason |-> "resignation"]
             /\ games'[game.id].fen = game.fen
             /\ games'[game.id].moves = game.moves]_vars

\* black has resigned a match in which a move had been played
C19_Witness ==
  /\ last.op = "resign"
  /\ last.ret \in gameMap
  /\ TwoPlayers(games[last.ret])
  /\ getPlayerColor(games[last.ret], last.player) = "black"
  /\ games[last.ret].outcome = [winner |-> "white", reason |-> "resignation"]
  /\ Len(games[last.ret].moves) = 1

C21_BadColourIsNoOp ==
  [][/\ \A p \in Players, color \in ColorInputs \ Colors :
          ApiCreateGame(p, color)
          => /\ last'.ret = Undefined
             /\ gameMap' = gameMap
             /\ playerMap' = playerMap
     /\ last'.ret # Fault]_vars

\* C22: at every instant at most one grace timer is pending per player (a
\* disconnect that starts a timer cancels the earlier one of the same player).
C22_OneTimerPerPlayer ==
  \A p \in Players : Cardinality(PendingFor(p)) <= 1

\* C23: when a grace timer fires, no match gets an outcome, no match is erased
\* and no side's connected flag changes value.
C23_TimerExpiryRetainsState ==
  [][last'.op = "timer"
     => /\ gameMap' = gameMap
        /\ \A g \in gameMap :
             /\ games'[g].outcome = games[g].outcome
             /\ games'[g].players = games[g].players]_vars

\* C24: after a connection of player p has been handled, no grace timer of p
\* remains pending, whatever happened since p's disconnect.
C24_ConnectCancelsTimers ==
  [][\A p \in Players :
       (last'.op = "on:connection" /\ last'.player = p)
       => PendingFor(p)' = {}]_vars

\* C25: a sweep run at time now evicts exactly the matches with
\* updatedAt + staleThreshold < now: a match with updatedAt + staleThreshold
\* equal to now, or greater, is still in the registry after the sweep.
C25_SweepEvictsStrictlyStale ==
  [][last'.op = "sweep"
     => gameMap' = {g \in gameMap : ~(games[g].updatedAt + StaleThreshold < Now)}]_vars

\* a sweep has evicted a match and kept one that is exactly at the threshold
C25_Witness ==
  /\ last.op = "sweep"
  /\ last.arg >= 1
  /\ \E g \in gameMap : games[g].updatedAt + StaleThreshold = Now

\* C26: a match evicted by a sweep has gone through eraseGame: after the sweep
\* it is not in the registry and no player binding refers to it.
C26_SweepLeavesNoBinding ==
  [][last'.op = "sweep"
     => \A g \in gameMap :
          Stale(games[g], Now)
          => /\ g \notin gameMap'
             /\ \A p \in Players : playerMap'[p] # g]_vars

\* C27: when a sweep fails while iterating, the failure is surfaced as a cleanup
\* fault and the next sweep is still scheduled, unless stopCleanup was called.
C27_FaultedSweepReschedules ==
  [][(last'.op = "sweep" /\ last'.ret = Fault /\ ~stopped')
     => cleanupTimer' # NoTimer]_vars

\* C28: after stopCleanup has returned no sweep runs again and the reaper
\* evicts nothing, whether or not an earlier sweep faulted; a further
\* stopCleanup changes nothing.
C28_StoppedStaysStopped ==
  [][stopped
     => /\ last'.op # "sweep"
        /\ cleanupTimer' = NoTimer
        /\ last'.op = "stopCleanup" => (games' = games /\ gameMap' = gameMap)]_vars

\* the service is stopped, time has passed and a stale object is still in the map
C28_Witness ==
  /\ stopped
  /\ last.op = "tick"
  /\ \E g \in gameMap : games[g].updatedAt + StaleThreshold < Now

\* C29: with the reaper running and its sweeps not faulting, no match stays in
\* the registry forever unless it keeps being touched: again and again the
\* match is absent or its updatedAt has just been stamped (or the process has
\* died of an uncaught exception, and the registry with it).
C29_IdleMatchIsEvicted ==
  \A g \in GameIds :
    []<>(crashed \/ g \notin gameMap \/ games[g].updatedAt = Now)

\* a sweep has just evicted a match of two players one of whom had left it,
\* the other still connected
C29_Witness ==
  /\ last.op = "sweep"
  /\ last.game # NoGame
  /\ last.game.id \notin gameMap
  /\ TwoPlayers(last.game)
  /\ \E color \in Colors :
       /\ ~last.game.players[color].connected
       /\ last.game.players[Opposite(color)].connected

\* C30: when a player resigns from an Active match of two players who both
\* have a live connection, the view that carries the resignation is sent to
\* both of them (the handler emits the match it then erases).
C30_ResignationReachesBoth ==
  [][\A p \in Players :
       LET game == BoundGame(Store, p)
       IN (/\ Opponents(game)
           /\ \A c \in Colors : /\ game.players[c].connected
                                 /\ live[game.players[c].id] > 0
                                 /\ game.players[c].id \in socketMap
           /\ last'.op = "on:resign"
           /\ last'.player = p)
          => /\ last'.game # NoGame
             /\ last'.game.outcome.reason = "resignation"
             /\ {game.players[c].id : c \in Colors}
                  \subseteq emitGame(last'.game, socketMap')]_vars

\* the sides of the match a handler has just emitted whose player is sent a view
Recipients(game, sockets) ==
  {c \in Colors : /\ Occupied(game, c)
                  /\ game.players[c].id \in emitGame(game, sockets)
                  /\ game.players[c].connected}

\* C31: every match view delivered to a player (here: of a match of two
\* players) carries a pendingDraw flag that is true exactly when a draw offer
\* is pending and was made by the side other than the recipient's.
C31_ViewCarriesPendingDraw ==
  [][\A color \in Colors :
       (/\ last'.op \in {"on:connection", "on:disconnect", "on:createGame",
                         "on:joinGame", "on:resign", "on:acceptDraw",
                         "on:offerDraw", "on:makeMove"}
        /\ TwoPlayers(last'.game)
        /\ color \in Recipients(last'.game, socketMap'))
       => (pendingDraw(chessLink(last'.game, color))
             <=> (/\ last'.game.drawOfferedBy # NoColor
                  /\ last'.game.drawOfferedBy # color))]_vars

\* the handlers and callbacks that build their updateLobby payload from the
\* registry as they leave it
LobbyAtEnd(l) ==
  \/ l.op \in {"on:requestLobby", "timer"}
  \/ l.op = "on:connection" /\ l.ret = Undefined
  \/ l.op \in {"on:createGame", "on:joinGame", "on:resign", "on:acceptDraw"}
       /\ l.game # NoGame
  \/ l.op = "on:disconnect" /\ l.game # NoGame /\ l.game.outcome # NoOutcome

\* C32: no updateLobby payload lists a match whose outcome is set, the one
\* broadcast by the handler of a game-ending move included.
C32_LobbyListsNoConcludedMatch ==
  [][/\ LobbyAtEnd(last')
          => \A game \in sanitizeGames(getAllGames(Store')) : game.outcome = NoOutcome
     /\ \A p \in Players, move \in Moves :
          OnMakeMove(p, move)
          => \A game \in makeMoveLobby(Store, p, move, Now) :
               game.outcome = NoOutcome]_vars

\* C33: after the handler of makeMove, acceptDraw, resign or disconnect has run
\* to completion, no match with an outcome is in the registry, and no player
\* of the concluded match the handler dealt with is still bound to it.
C33_ConcludedMatchIsDestroyed ==
  [][last'.op \in {"on:makeMove", "on:acceptDraw", "on:resign", "on:disconnect"}
     => /\ \A g \in gameMap' : games'[g].outcome = NoOutcome
        /\ (last'.game # NoGame /\ last'.game.outcome # NoOutcome)
             => /\ last'.game.id \notin gameMap'
                /\ \A c \in Colors :
                     Occupied(last'.game, c)
                     => playerMap'[last'.game.players[c].id] # last'.game.id]_vars

\* a handler has just emitted and erased a concluded match of two players
C33_Witness ==
  /\ last.op \in {"on:makeMove", "on:acceptDraw", "on:resign", "on:disconnect"}
  /\ TwoPlayers(last.game)
  /\ last.game.outcome # NoOutcome
  /\ gameMap = {}

\* p's binding resolves to a match in which p occupies neither side
Unseated(p) ==
  /\ BoundGame(Store, p) # NoGame
  /\ getPlayerColor(BoundGame(Store, p), p) = NoColor

\* C34: when a player's binding resolves to a match in which the player has no
\* side, each of connect, disconnect, makeMove, offerDraw, acceptDraw and resign
\* raises the synchronization fault and mutates nothing, whatever the match's
\* drawOfferedBy is.
C34_UnseatedCallerFaults ==
  [][\A p \in Players :
       (/\ Unseated(p)
        /\ last'.player = p
        /\ last'.op \in {"connect", "disconnect", "makeMove", "offerDraw",
                         "acceptDraw", "resign"})
       => /\ last'.ret = Fault
          /\ games' = games
          /\ gameMap' = gameMap
          /\ playerMap' = playerMap]_vars

\* C35: in every state reachable through the public operations every binding
\* points to a match of the registry in which the bound player occupies a
\* side, and no call has raised the synchronization fault.
C35_BindingsAreSeats ==
  /\ \A p \in Players :
       playerMap[p] # 0
       => /\ playerMap[p] \in gameMap
          /\ getPlayerColor(games[playerMap[p]], p) # NoColor
  /\ last.ret # Fault

\* the sides p occupies over the matches of the registry
SeatsOf(p) == {s \in gameMap \X Colors : games[s[1]].players[s[2]].id = p}

\* C36: an identity occupies at most one side over all matches of the
\* registry: never both sides of one match, never sides of two matches.
C36_OneSeatPerIdentity == \A p \in Players : Cardinality(SeatsOf(p)) <= 1

\* C37: after every handler or timer callback, for each player who occupies a
\* side of a match in the registry the connected flag is true exactly when the
\* player has a live connection.
C37_ConnectedFlagIsLiveness ==
  \A g \in gameMap, c \in Colors :
    Occupied(games[g], c)
    => (games[g].players[c].connected <=> live[games[g].players[c].id] > 0)

\* C38: whenever a grace timer is pending for p, p is bound to a match of the
\* registry and p's side in it is marked disconnected; no timer stays pending
\* for a player whose match has been erased.
C38_TimerImpliesDisconnectedSeat ==
  \A p \in Players :
    PendingFor(p) # {}
    => /\ playerMap[p] \in gameMap
       /\ getPlayerColor(games[playerMap[p]], p) # NoColor
       /\ ~games[playerMap[p]].players[getPlayerColor(games[playerMap[p]], p)].connected

\* the side that made entry k of a move history in which the sides alternate
\* from the engine's initial position, white to move
MoverOf(k) == IF k % 2 = 1 THEN "white" ELSE "black"

\* C39: successful moves alternate between the two sides. An accepted move is
\* made by the side whose turn it was, appends one entry to the history and
\* hands the turn to the other side, so that entry k was made by white for odd
\* k and by black for even k and the history is as long as the number of
\* accepted moves; nothing but an accepted move changes the position or the
\* history of a match.
C39_MovesAlternate ==
  [][/\ \A p \in Players, move \in Moves :
          (ApiMakeMove(p, move) /\ last'.ret \in GameIds)
          => LET game == BoundGame(Store, p)
                 after == last'.game
             IN /\ getPlayerColor(game, p) = Turn(game.fen)
                /\ Len(after.moves) = Len(game.moves) + 1
                /\ after.fen.ply = Len(after.moves)
                /\ MoverOf(Len(after.moves)) = Turn(game.fen)
                /\ Turn(after.fen) = Opposite(Turn(game.fen))
     /\ \A g \in GameIds :
          (/\ games[g] # NoGame
           /\ games'[g] # NoGame
           /\ ~(last'.op = "makeMove" /\ last'.ret = g))
          => (games'[g].moves = <<>> /\ games'[g].fen = StartFen)
               \/ (games'[g].moves = games[g].moves /\ games'[g].fen = games[g].fen)]_vars

\* black has just answered white's move in a match of two players
C39_Witness ==
  /\ last.op = "makeMove"
  /\ last.ret \in GameIds
  /\ TwoPlayers(last.game)
  /\ Len(last.game.moves) = 2
  /\ getPlayerColor(last.game, last.player) = "black"

\* the outcome of game names no winner, or a side a player occupies
WinnerIsSeated(game) ==
  (game # NoGame /\ game.outcome.winner # NoColor)
  => Occupied(game, game.outcome.winner)

\* C40: whenever the outcome of a match names a winner, a player occupies the
\* winning side of that match; this holds of every Game object and of the
\* Game the last call returned.
C40_WinnerIsAPlayer ==
  /\ \A g \in GameIds : WinnerIsSeated(games[g])
  /\ WinnerIsSeated(last.game)

====
